---- MODULE Spec2Model ----
(***************************************************************************)
(* Model of src/main.py: a FastAPI application with three in-memory        *)
(* dictionaries (request_counts, last_contact_time, users) and three       *)
(* handlers (register_user, verify_email, create_contact wrapped by the    *)
(* rate_limit decorator).                                                  *)
(*                                                                         *)
(* Scheduling.  All handlers are `async def` coroutines served by one      *)
(* event loop.  None of them reaches a suspension point: the only `await`  *)
(* (line 95) awaits create_contact, which itself never awaits (the         *)
(* Cloudinary upload at line 174 is a blocking call).  A handler therefore *)
(* runs to completion before another one starts, and concurrent requests   *)
(* are served one after another in an arbitrary order: each handler is one *)
(* action, and Next chooses the order.  The variable `call` holds the      *)
(* request of the handler that ran last with its locals and its response,  *)
(* until the response is sent (respond); no handler reads it, so serving   *)
(* the next request only after that loses no behaviour of the three        *)
(* dictionaries.  The background task scheduled by register_user is        *)
(* attached to the response and runs after it is sent, as a step of its    *)
(* own; it prints and touches no dictionary.                               *)
(*                                                                         *)
(* Time.  datetime.now() is modelled by the variable `now`, counted in     *)
(* ticks of 30 seconds, non-decreasing.  Each datetime.now() call of a     *)
(* handler is a read of its own: the clock may advance between two reads   *)
(* of one handler call (Drifts), and by Tick between handler calls.        *)
(*                                                                         *)
(* Requests that FastAPI rejects before the handler runs (422 validation   *)
(* errors) change nothing and are not modelled.                            *)
(***************************************************************************)
EXTENDS Integers, FiniteSets, Sequences, TLC

\* ------------------------------------------------------------------ bounds

\* The clock stops at MaxTime.
MaxTime == 3

\* Number of uuid4() values drawn in a run.
MaxTokens == 2

\* ------------------------------------------------------------------ inputs

\* request.client.host values.
Hosts == {"h1", "h2"}

\* Email strings sent by clients: two well-formed ones, one without '@', and
\* one with '@' from which parseaddr extracts no address.
Emails == {"a@x.com", "b@x.com", "nope", "@"}

\* Token strings sent to /verify/: 0 is a string uuid4 never returns ("x"),
\* n > 0 is the n-th value returned by uuid4.
Tokens == 0..MaxTokens

\* Outcome of cloudinary.uploader.upload: a result with a secure_url, or an
\* exception.
UploadOutcomes == {"ok", "failed"}

\* Advance of the clock between two consecutive datetime.now() reads of one
\* handler call.  The reads are a few statements apart and a tick is 30 s:
\* at most one tick boundary falls between the first and the last of them.
Drifts == {0, 1}

\* ------------------------------------------------------------------ state

VARIABLES
    now,                \* the value datetime.now() returns
    request_counts,     \* dict: host -> time of its last passing request
    last_contact_time,  \* dict: email -> time of its last contact creation
    users,              \* dict: email -> [verified, verification_token]
    uuid_count,         \* number of uuid4() values drawn so far
    call,               \* the request being served: its arguments, the
                        \* locals of its handler, its response and the
                        \* background tasks attached to the response
                        \* (NoCall when no request is being served)
    passed_at           \* history, read by no handler: for each host, the
                        \* times less than ThrottlePer ago at which line 92
                        \* ran for it (its calls that passed the wrapper)

vars ==
    <<now, request_counts, last_contact_time, users, uuid_count, call,
      passed_at>>

\* ------------------------------------------------------------------ helpers

\* The empty dict {}.
EmptyDict == [k \in {} |-> 0]

\* d[k] = v on a dict.
Put(d, k, v) == [x \in DOMAIN d \cup {k} |-> IF x = k THEN v ELSE d[x]]

\* timedelta(minutes=1), the `per` argument of the decorator (line 155).
ThrottlePer == 2

\* timedelta(minutes=1), the `per` argument of can_create_contact (line 166).
CooldownPer == 2

\* Marks a local that the call did not compute.
NoTime == 0 - 1

\* parseaddr(email)[1] for the strings of Emails (email.utils.parseaddr).
parseaddr(email) ==
    CASE email = "a@x.com" -> "a@x.com"
      [] email = "b@x.com" -> "b@x.com"
      [] email = "nope"    -> "nope"
      [] email = "@"       -> ""

\* '@' in email, for the strings of Emails.
HasAt(email) == email \in {"a@x.com", "b@x.com", "@"}

\* EmailValid without the test for '@'.
EmailValidParsedOnly(email) == parseaddr(email) # ""

\* The negation of the test at line 114.
EmailValid(email) == ~(parseaddr(email) = "" \/ ~HasAt(email))

\* str(uuid4()): a value that differs from all values drawn before.
uuid4(count) == count + 1

\* NewUser that stores a verified record.
NewUserVerified(token) == [verified |-> TRUE, verification_token |-> token]

\* The record stored by register_user.
NewUser(token) == [verified |-> FALSE, verification_token |-> token]

\* VerifyOk that also accepts the tokens drawn before the stored one.
VerifyOkIssuedBefore(us, email, token) ==
    /\ email \in DOMAIN us
    /\ token >= 1
    /\ token <= us[email].verification_token

\* VerifyOk that accepts a token once only.
VerifyOkOnce(us, email, token) ==
    /\ email \in DOMAIN us
    /\ us[email].verification_token = token
    /\ ~us[email].verified

\* VerifyOk without the comparison of the tokens.
VerifyOkAnyToken(us, email, token) == email \in DOMAIN us

\* The negation of the test at line 136.
VerifyOk(us, email, token) ==
    ~(email \notin DOMAIN us \/ us[email].verification_token # token)

\* SetVerified that flips the flag instead of setting it.
SetVerifiedToggles(us, email) ==
    [us EXCEPT ![email].verified = ~us[email].verified]

\* users[email]["verified"] = True.
SetVerified(us, email) == [us EXCEPT ![email].verified = TRUE]

\* IsAuthorized that accepts a registered user without looking at the flag.
IsAuthorizedUnverified(us, email) == email \in DOMAIN us

\* The negation of the test at line 161.
IsAuthorized(us, email) ==
    ~(email \notin DOMAIN us \/ ~us[email].verified)

\* time_elapsed at line 83, NoTime when the host has no entry.
WrapperElapsed(rc, host, t) ==
    IF host \in DOMAIN rc THEN t - rc[host] ELSE NoTime

\* ThrottleLimited that refuses no request.
ThrottleLimitedNever(rc, host, per, t) == FALSE

\* ThrottleLimited with `<=` for `<` at line 86.
ThrottleLimitedInclusive(rc, host, per, t) ==
    host \in DOMAIN rc /\ t - rc[host] <= per

\* The test of lines 81-86: the request is refused.
ThrottleLimited(rc, host, per, t) ==
    host \in DOMAIN rc /\ t - rc[host] < per

\* TimeToWait that ends one unit of time too early.
TimeToWaitShort(rc, host, per, t) == per - (t - rc[host]) - 1

\* TimeToWait that returns the elapsed time, not the remaining one.
TimeToWaitElapsed(rc, host, per, t) == t - rc[host]

\* time_to_wait at line 87.
TimeToWait(rc, host, per, t) == per - (t - rc[host])

\* time_elapsed at line 61, NoTime when the user has no entry.
ContactElapsed(lct, user_id, t) ==
    IF user_id \in DOMAIN lct THEN t - lct[user_id] ELSE NoTime

\* can_create_contact without the test of the elapsed time.
can_create_contact_always(lct, user_id, per, t) == TRUE

\* can_create_contact with `<=` for `<` at line 64.
can_create_contact_inclusive(lct, user_id, per, t) ==
    IF user_id \in DOMAIN lct /\ t - lct[user_id] <= per THEN FALSE ELSE TRUE

\* can_create_contact(user_id, per), with datetime.now() = t.
can_create_contact(lct, user_id, per, t) ==
    IF user_id \in DOMAIN lct /\ t - lct[user_id] < per THEN FALSE ELSE TRUE

\* StoreRequestTime that replaces the dictionary by one with a single entry.
StoreRequestTimeOnly(rc, host, t) == [x \in {host} |-> t]

\* StoreRequestTime that stamps every entry of the dictionary.
StoreRequestTimeAll(rc, host, t) == [x \in DOMAIN rc \cup {host} |-> t]

\* StoreRequestTime that stores nothing.
StoreRequestTimeSkipped(rc, host, t) == rc

\* request_counts[user_id] = datetime.now(), with datetime.now() = t.
StoreRequestTime(rc, host, t) == Put(rc, host, t)

\* StoreContactTime put off until after the upload: the call of the handler
\* that passed the test leaves the dictionary as it was.
StoreContactTimeDeferred(lct, email, t) == lct

\* StoreContactTime that stamps every entry of the dictionary.
StoreContactTimeAll(lct, email, t) == [x \in DOMAIN lct \cup {email} |-> t]

\* last_contact_time[user_email] = datetime.now(), with datetime.now() = t.
StoreContactTime(lct, email, t) == Put(lct, email, t)

\* ContactTimesAfterUpload with a rollback of line 171 when the upload raises.
ContactTimesRolledBack(before, stored, upload) ==
    IF upload = "failed" THEN before ELSE stored

\* last_contact_time after lines 171-175: `before` is the dictionary before
\* line 171 and `stored` the one after it.  Nothing catches the exception of
\* the upload, and nothing undoes line 171.
ContactTimesAfterUpload(before, stored, upload) == stored

\* The detail (or message) of each response.  The 429 of the wrapper ends
\* with time_to_wait, kept in a field of its own; a contact's avatar_url is
\* the upload's result; an exception of the upload is FastAPI's 500.
InvalidEmail == "Invalid email address"
Registered == "User registered successfully. Verification email sent."
InvalidToken == "Invalid email or token"
Verified == "Email verified successfully"
TryAgainIn == "Too Many Requests. Try again in"
NotVerified == "User not registered or not verified"
TryAgainLater == "Too Many Requests. Try again later."
Created == "Contact created successfully"
ServerError == "Internal Server Error"

\* AddTask that schedules nothing.
AddTaskDropped(background_tasks, email, token) == background_tasks

\* background_tasks.add_task(send_verification_email, email, token).
AddTask(background_tasks, email, token) ==
    Append(background_tasks, [email |-> email, token |-> token])

\* The argument limit of rate_limit at line 155.  The wrapper never reads it.
Limit == 5

\* The entries of the history that are less than per before t.
Recent(pa, per, t) == [host \in DOMAIN pa |-> {x \in pa[host] : t - x < per}]

\* Line 92 ran for host at time t92; the handler ended at time t.
RecordPass(pa, host, per, t92, t) ==
    Recent([pa EXCEPT ![host] = @ \cup {t92}], per, t)

\* ------------------------------------------------------------------ calls

NoCall ==
    [op |-> "none", host |-> "-", email |-> "-", token |-> 0,
     status |-> 0, detail |-> "-", wrapper_elapsed |-> NoTime,
     contact_elapsed |-> NoTime, time_to_wait |-> NoTime,
     upload |-> "none", was_verified |-> FALSE, background |-> <<>>]

Init ==
    /\ now = 0
    /\ request_counts = EmptyDict
    /\ last_contact_time = EmptyDict
    /\ users = EmptyDict
    /\ uuid_count = 0
    /\ call = NoCall
    /\ passed_at = [host \in Hosts |-> {}]

\* The clock advances.
Tick ==
    /\ call = NoCall
    /\ now < MaxTime
    /\ now' = now + 1
    /\ passed_at' = Recent(passed_at, ThrottlePer, now')
    /\ UNCHANGED <<request_counts, last_contact_time, users, uuid_count,
                   call>>

\* POST /register/
register_user(email) ==
    /\ call = NoCall
    /\ \/ /\ ~EmailValid(email)
          /\ call' = [NoCall EXCEPT !.op = "register", !.email = email,
                                    !.status = 400,
                                    !.detail = InvalidEmail]
          /\ UNCHANGED <<now, request_counts, last_contact_time, users,
                         uuid_count, passed_at>>
       \/ /\ EmailValid(email)
          /\ uuid_count < MaxTokens
          /\ LET verification_token == uuid4(uuid_count) IN
               /\ uuid_count' = uuid_count + 1
               /\ users' = Put(users, email, NewUser(verification_token))
               /\ call' = [NoCall EXCEPT
                               !.op = "register", !.email = email,
                               !.token = verification_token,
                               !.status = 200, !.detail = Registered,
                               !.was_verified = IsAuthorized(users, email),
                               !.background =
                                   AddTask(<<>>, email, verification_token)]
          /\ UNCHANGED <<now, request_counts, last_contact_time, passed_at>>

\* POST /verify/
verify_email(email, token) ==
    /\ call = NoCall
    /\ \/ /\ ~VerifyOk(users, email, token)
          /\ call' = [NoCall EXCEPT !.op = "verify", !.email = email,
                                    !.token = token, !.status = 400,
                                    !.detail = InvalidToken,
                                    !.was_verified = IsAuthorized(users, email)]
          /\ UNCHANGED <<now, request_counts, last_contact_time, users,
                         uuid_count, passed_at>>
       \/ /\ VerifyOk(users, email, token)
          /\ users' = SetVerified(users, email)
          /\ call' = [NoCall EXCEPT !.op = "verify", !.email = email,
                                    !.token = token, !.status = 200,
                                    !.detail = Verified,
                                    !.was_verified = IsAuthorized(users, email)]
          /\ UNCHANGED <<now, request_counts, last_contact_time, uuid_count,
                         passed_at>>

\* POST /create_contact/ through the wrapper of rate_limit.  d92, d61 and
\* d171 are the advances of the clock before the datetime.now() reads at
\* lines 92, 61 and 171; upload is what cloudinary.uploader.upload does.
create_contact(host, email, d92, d61, d171, upload) ==
    LET t83 == now
        t92 == t83 + d92
        t61 == IF email \in DOMAIN last_contact_time THEN t92 + d61 ELSE t92
        t171 == t61 + d171
        seen == [NoCall EXCEPT !.op = "create_contact", !.host = host,
                               !.email = email,
                               !.wrapper_elapsed =
                                   WrapperElapsed(request_counts, host, t83),
                               !.was_verified = IsAuthorized(users, email)]
    IN
    /\ call = NoCall
    /\ d92 + d61 + d171 <= 1
       \* lines 81-89: the wrapper raises 429
    /\ \/ /\ ThrottleLimited(request_counts, host, ThrottlePer, t83)
          /\ d92 = 0 /\ d61 = 0 /\ d171 = 0 /\ upload = "ok"
          /\ call' = [seen EXCEPT !.status = 429, !.detail = TryAgainIn,
                                  !.time_to_wait =
                                      TimeToWait(request_counts, host, ThrottlePer, t83)]
          /\ UNCHANGED <<now, request_counts, last_contact_time, users,
                         uuid_count, passed_at>>
       \* lines 92, 161-163: the user is not registered or not verified
       \/ /\ ~ThrottleLimited(request_counts, host, ThrottlePer, t83)
          /\ t92 <= MaxTime
          /\ d61 = 0 /\ d171 = 0 /\ upload = "ok"
          /\ ~IsAuthorized(users, email)
          /\ request_counts' = StoreRequestTime(request_counts, host, t92)
          /\ now' = t92
          /\ passed_at' = RecordPass(passed_at, host, ThrottlePer, t92, t92)
          /\ call' = [seen EXCEPT !.status = 401, !.detail = NotVerified]
          /\ UNCHANGED <<last_contact_time, users, uuid_count>>
       \* lines 92, 166-168: can_create_contact returns False
       \/ /\ ~ThrottleLimited(request_counts, host, ThrottlePer, t83)
          /\ t61 <= MaxTime
          /\ d171 = 0 /\ upload = "ok"
          /\ IsAuthorized(users, email)
          /\ ~can_create_contact(last_contact_time, email, CooldownPer, t61)
          /\ request_counts' = StoreRequestTime(request_counts, host, t92)
          /\ now' = t61
          /\ passed_at' = RecordPass(passed_at, host, ThrottlePer, t92, t61)
          /\ call' = [seen EXCEPT !.status = 429, !.detail = TryAgainLater,
                                  !.contact_elapsed =
                                      ContactElapsed(last_contact_time, email, t61)]
          /\ UNCHANGED <<last_contact_time, users, uuid_count>>
       \* lines 92, 171-178: the contact time is stored and the avatar uploaded
       \/ /\ ~ThrottleLimited(request_counts, host, ThrottlePer, t83)
          /\ t171 <= MaxTime
          /\ IsAuthorized(users, email)
          /\ can_create_contact(last_contact_time, email, CooldownPer, t61)
          /\ request_counts' = StoreRequestTime(request_counts, host, t92)
          /\ last_contact_time' =
                 ContactTimesAfterUpload(
                     last_contact_time,
                     StoreContactTime(last_contact_time, email, t171),
                     upload)
          /\ now' = t171
          /\ passed_at' = RecordPass(passed_at, host, ThrottlePer, t92, t171)
          /\ call' = [seen EXCEPT !.status = IF upload = "ok" THEN 200 ELSE 500,
                                  !.detail = IF upload = "ok" THEN Created
                                             ELSE ServerError,
                                  !.contact_elapsed =
                                      ContactElapsed(last_contact_time, email, t61),
                                  !.upload = upload]
          /\ UNCHANGED <<users, uuid_count>>

\* The response is sent to the client; the background tasks attached to
\* it are run after that.  A call whose tasks have run is over.
respond ==
    /\ call.op \notin {"none", "background"}
    /\ call' = IF call.background = <<>>
               THEN NoCall
               ELSE [NoCall EXCEPT !.op = "background",
                                   !.background = call.background]
    /\ UNCHANGED <<now, request_counts, last_contact_time, users, uuid_count,
                   passed_at>>

\* The background task send_verification_email(email, token) runs: it
\* prints three lines ("sent") or raises ("failed"); an exception of a
\* background task reaches no client and no dictionary.
send_verification_email(outcome) ==
    /\ call.op = "background"
    /\ call' = [NoCall EXCEPT !.op = "dispatched",
                              !.email = Head(call.background).email,
                              !.token = Head(call.background).token,
                              !.detail = outcome]
    /\ UNCHANGED <<now, request_counts, last_contact_time, users, uuid_count,
                   passed_at>>

Next ==
    \/ Tick
    \/ respond
    \/ \E email \in Emails : register_user(email)
    \/ \E outcome \in {"sent", "failed"} : send_verification_email(outcome)
    \/ \E email \in Emails, token \in Tokens : verify_email(email, token)
    \/ \E host \in Hosts, email \in Emails, d92 \in Drifts, d61 \in Drifts,
          d171 \in Drifts, upload \in UploadOutcomes :
          create_contact(host, email, d92, d61, d171, upload)

Spec == Init /\ [][Next]_vars


\* ------------------------------------------------------------------ claims

\* The step is a call of handler `op`: no request was being served, and
\* call' is the request, the locals and the response of the call.
Called(op) == call = NoCall /\ call'.op = op

\* users[email]["verified"], False for an email without a record.
IsVerified(us, email) == email \in DOMAIN us /\ us[email].verified

\* The wrapper of the call let the request through.
PassedThrottle(c) == c.op = "create_contact" /\ c.detail # TryAgainIn

\* C1: a create_contact call from a host whose last passing call was less
\* than ThrottlePer before it is answered 429 by the wrapper; one whose last
\* passing call was ThrottlePer or more before it, or which has no entry,
\* passes the wrapper, which records it.
C1_Throttle ==
    [][Called("create_contact") =>
         LET host == call'.host IN
         IF host \in DOMAIN request_counts
            /\ now - request_counts[host] < ThrottlePer
         THEN call'.status = 429 /\ call'.detail = TryAgainIn
         ELSE /\ PassedThrottle(call')
              /\ host \in DOMAIN request_counts'
              /\ request_counts'[host] >= now]_vars

\* A call was refused one tick after the call of its host that passed.
C1_Witness ==
    /\ call.op = "create_contact"
    /\ call.status = 429
    /\ call.detail = TryAgainIn
    /\ call.host \in DOMAIN request_counts
    /\ now - request_counts[call.host] = ThrottlePer - 1

\* C2: verify with the stored token succeeds and leaves the record verified
\* with the same token, whether the record was verified before or not; on a
\* verified record it changes nothing.
C2_VerifyIdempotent ==
    [][Called("verify") =>
         LET email == call'.email
             token == call'.token
         IN  (email \in DOMAIN users
              /\ users[email].verification_token = token)
             => /\ call'.status = 200
                /\ DOMAIN users' = DOMAIN users
                /\ users'[email].verified
                /\ users'[email].verification_token = token
                /\ \A other \in DOMAIN users \ {email} :
                       users'[other] = users[other]
                /\ users[email].verified => users' = users]_vars

\* A second verify with the stored token was answered 200.
C2_Witness ==
    /\ call.op = "verify"
    /\ call.status = 200
    /\ call.was_verified
    /\ IsVerified(users, call.email)
    /\ users[call.email].verification_token = call.token

\* C3: verify for an email without a record, or with a token that is not
\* the stored one, is answered 400 with the same detail in both cases, and
\* changes no record.
C3_VerifyRejects ==
    [][Called("verify") =>
         LET email == call'.email
             token == call'.token
         IN  (email \notin DOMAIN users
              \/ users[email].verification_token # token)
             => /\ call'.status = 400
                /\ call'.detail = InvalidToken
                /\ users' = users]_vars

\* A token issued to another email was presented for a registered,
\* unverified email and refused.
C3_Witness ==
    /\ call.op = "verify"
    /\ call.status = 400
    /\ call.email \in DOMAIN users
    /\ ~users[call.email].verified
    /\ call.token # users[call.email].verification_token
    /\ \E other \in DOMAIN users : users[other].verification_token = call.token

\* C4 as stated: a verified identity stays verified after every step.
C4_VerifiedForever ==
    [][\A email \in Emails :
         IsVerified(users, email) => IsVerified(users', email)]_vars

\* C4: a record is never removed, and the verified flag of an identity goes
\* from true to false only in a register call for that identity that is
\* answered 200.
C4_VerifiedUntilRegister ==
    [][\A email \in Emails :
         /\ email \in DOMAIN users => email \in DOMAIN users'
         /\ (IsVerified(users, email) /\ ~IsVerified(users', email))
            => /\ Called("register")
               /\ call'.email = email
               /\ call'.status = 200]_vars

\* A verified identity created a contact and verified again, and is verified.
C4_Witness ==
    /\ call.op = "verify"
    /\ call.status = 200
    /\ call.was_verified
    /\ call.email \in DOMAIN last_contact_time
    /\ IsVerified(users, call.email)

\* Tokens returned by uuid4 so far.
Issued == 1..uuid_count

\* C5: register with a valid email stores an unverified record with a token
\* that was not issued before; the token stored before it no longer
\* verifies, create_contact for the identity is not served while it is
\* unverified (401 once past the wrapper), and the flag becomes true only in
\* a verify call that presents the stored token.
C5_Register ==
    [][/\ Called("register") /\ EmailValid(call'.email) =>
            LET email == call'.email IN
            /\ call'.status = 200
            /\ call'.token \notin Issued
            /\ users'[email] = [verified |-> FALSE,
                                verification_token |-> call'.token]
            /\ \A other \in DOMAIN users \ {email} :
                   other \in DOMAIN users' /\ users'[other] = users[other]
            /\ email \in DOMAIN users
                   => ~VerifyOk(users', email, users[email].verification_token)
            /\ ~IsAuthorized(users', email)
       /\ Called("create_contact") /\ ~IsVerified(users, call'.email) =>
            /\ call'.upload = "none"
            /\ call'.status \in {401, 429}
            /\ PassedThrottle(call') => call'.status = 401
       /\ \A email \in Emails :
            (~IsVerified(users, email) /\ IsVerified(users', email)) =>
                /\ Called("verify")
                /\ call'.email = email
                /\ call'.token = users[email].verification_token]_vars

\* A verified identity registered again: its record is unverified and holds
\* the new token.
C5_Witness ==
    /\ call.op = "register"
    /\ call.status = 200
    /\ call.was_verified
    /\ ~IsVerified(users, call.email)
    /\ users[call.email].verification_token = call.token
    /\ call.token > 1

\* C6: a create_contact call for a verified identity that passes the
\* wrapper and reads, in can_create_contact, a time less than CooldownPer
\* after the identity's stored contact time is answered 429, uploads nothing
\* and leaves the contact times unchanged.  The time read lies between the
\* time the wrapper stored and the end of the call.
C6_Cooldown ==
    [][(/\ Called("create_contact")
        /\ PassedThrottle(call')
        /\ IsVerified(users, call'.email)
        /\ call'.email \in DOMAIN last_contact_time) =>
         LET last_contact == last_contact_time[call'.email]
             time_elapsed == call'.contact_elapsed
         IN  /\ time_elapsed # NoTime
             /\ request_counts'[call'.host] - last_contact <= time_elapsed
             /\ time_elapsed <= now' - last_contact
             /\ time_elapsed < CooldownPer =>
                    /\ call'.status = 429
                    /\ call'.detail = TryAgainLater
                    /\ call'.upload = "none"
                    /\ last_contact_time' = last_contact_time]_vars

\* A call from a second host, one tick after the contact time of its
\* identity, was refused by the cooldown.
C6_Witness ==
    /\ call.op = "create_contact"
    /\ call.status = 429
    /\ call.detail = TryAgainLater
    /\ call.contact_elapsed = CooldownPer - 1
    /\ \E other \in DOMAIN request_counts \ {call.host} :
           request_counts[other] <= last_contact_time[call.email]

\* C7: the test and the update of the contact time are one step.  A call
\* that passes the wrapper for a verified identity without a contact time
\* is granted and stores the contact time in the same step, so that every
\* later call reading a time less than CooldownPer after it is refused; a
\* call for an identity with a contact time is granted only CooldownPer or
\* more after it.
C7_AtomicGate ==
    [][(/\ Called("create_contact")
        /\ PassedThrottle(call')
        /\ IsVerified(users, call'.email)) =>
         LET email == call'.email IN
         IF email \notin DOMAIN last_contact_time
         THEN /\ call'.upload # "none"
              /\ email \in DOMAIN last_contact_time'
              /\ request_counts'[call'.host] <= last_contact_time'[email]
              /\ last_contact_time'[email] <= now'
              /\ \A t \in last_contact_time'[email]
                          ..(last_contact_time'[email] + CooldownPer - 1) :
                     ~can_create_contact(last_contact_time', email, CooldownPer, t)
         ELSE call'.upload # "none" =>
                  last_contact_time'[email] - last_contact_time[email]
                      >= CooldownPer]_vars

\* Two hosts passed the wrapper at the same time for one identity; one call
\* was granted and the other, reading the same time, was refused.
C7_Witness ==
    /\ call.op = "create_contact"
    /\ call.status = 429
    /\ call.detail = TryAgainLater
    /\ call.contact_elapsed = 0
    /\ \E other \in DOMAIN request_counts \ {call.host} :
           /\ request_counts[other] = request_counts[call.host]
           /\ request_counts[other] = last_contact_time[call.email]

\* C8: a create_contact call that reads, in the wrapper, a time exactly
\* ThrottlePer after the stored time of its host passes the wrapper; one
\* that reads, in can_create_contact, a time exactly CooldownPer after the
\* stored contact time of its verified identity is granted.
C8_Inclusive ==
    [][Called("create_contact") =>
         LET host == call'.host
             email == call'.email
         IN  /\ (host \in DOMAIN request_counts
                 /\ now - request_counts[host] = ThrottlePer)
                => /\ PassedThrottle(call')
                   /\ request_counts'[host] >= request_counts[host] + ThrottlePer
             /\ (/\ PassedThrottle(call')
                 /\ IsVerified(users, email)
                 /\ call'.contact_elapsed = CooldownPer)
                => /\ call'.upload # "none"
                   /\ call'.status \in {200, 500}
                   /\ last_contact_time'[email]
                          >= last_contact_time[email] + CooldownPer]_vars

\* A call at the boundary of both gates was served.
C8_Witness ==
    /\ call.op = "create_contact"
    /\ call.status = 200
    /\ call.wrapper_elapsed = ThrottlePer
    /\ call.contact_elapsed = CooldownPer

\* C9: every create_contact call that passes the wrapper, whatever its
\* response, leaves the time of the call as the stored time of its host, so
\* that the wrapper refuses the host at every time less than ThrottlePer
\* after it.
C9_ThrottleConsumed ==
    [][(Called("create_contact") /\ PassedThrottle(call')) =>
         LET host == call'.host IN
         /\ call'.status \in {200, 401, 429, 500}
         /\ host \in DOMAIN request_counts'
         /\ now <= request_counts'[host]
         /\ request_counts'[host] <= now'
         /\ \A t \in request_counts'[host]
                     ..(request_counts'[host] + ThrottlePer - 1) :
                ThrottleLimited(request_counts', host, ThrottlePer, t)]_vars

\* The first call of a host named an email without a record: it was
\* answered 401 and the host has its stored time.
C9_Witness ==
    /\ call.op = "create_contact"
    /\ call.status = 401
    /\ call.email \notin DOMAIN users
    /\ call.wrapper_elapsed = NoTime
    /\ call.host \in DOMAIN request_counts
    /\ request_counts[call.host] = now

\* C10: create_contact tests the throttle, then the verified flag, then the
\* cooldown, and stops at the first test that fails; the upload is called
\* exactly when the three pass; a call for an identity without a record or
\* unverified is answered 401 without reading or changing the contact
\* times.
C10_GuardOrder ==
    [][Called("create_contact") =>
         LET host == call'.host
             email == call'.email
             throttled == /\ host \in DOMAIN request_counts
                          /\ now - request_counts[host] < ThrottlePer
             verified == IsVerified(users, email)
             cooling == /\ call'.contact_elapsed # NoTime
                        /\ call'.contact_elapsed < CooldownPer
         IN  /\ throttled =>
                    /\ call'.status = 429 /\ call'.detail = TryAgainIn
                    /\ call'.upload = "none"
                    /\ call'.contact_elapsed = NoTime
                    /\ UNCHANGED <<request_counts, last_contact_time>>
             /\ (~throttled /\ ~verified) =>
                    /\ call'.status = 401 /\ call'.detail = NotVerified
                    /\ call'.upload = "none"
                    /\ call'.contact_elapsed = NoTime
                    /\ UNCHANGED last_contact_time
             /\ (~throttled /\ verified /\ cooling) =>
                    /\ call'.status = 429 /\ call'.detail = TryAgainLater
                    /\ call'.upload = "none"
                    /\ UNCHANGED last_contact_time
             /\ call'.upload # "none"
                    <=> (~throttled /\ verified /\ ~cooling)
             /\ UNCHANGED users]_vars

\* An identity with a contact time less than CooldownPer old registered
\* again: its call was answered 401, not 429.
C10_Witness ==
    /\ call.op = "create_contact"
    /\ call.status = 401
    /\ call.email \in DOMAIN users
    /\ call.email \in DOMAIN last_contact_time
    /\ now - last_contact_time[call.email] < CooldownPer

\* C11: when the upload of a create_contact call raises, the contact time
\* of the identity is the time read at line 171 of that call and stays so
\* when the 500 is sent, so that can_create_contact refuses the identity at
\* every time less than CooldownPer after it.
C11_NoRollback ==
    [][/\ (Called("create_contact") /\ call'.upload = "failed") =>
            LET email == call'.email IN
            /\ call'.status = 500
            /\ email \in DOMAIN last_contact_time'
            /\ last_contact_time'[email] = now'
            /\ request_counts'[call'.host] <= last_contact_time'[email]
            /\ \A t \in now'..(now' + CooldownPer - 1) :
                   ~can_create_contact(last_contact_time', email, CooldownPer, t)
       /\ call.upload = "failed" => UNCHANGED last_contact_time]_vars

\* The upload of a call raised; the identity, which had a contact time
\* before, has the time of this call.
C11_Witness ==
    /\ call.op = "create_contact"
    /\ call.upload = "failed"
    /\ call.status = 500
    /\ call.contact_elapsed >= CooldownPer
    /\ last_contact_time[call.email] = now

\* C12: last_contact_time changes only in a create_contact call that
\* passes the throttle, the verified flag and the cooldown; the call sets
\* the entry of its own identity to the time it reads last and leaves the
\* other entries as they were.  A call answered 401 or 429 changes nothing.
C12_CooldownFrame ==
    [][/\ last_contact_time' # last_contact_time =>
            LET host == call'.host
                email == call'.email
            IN  /\ Called("create_contact")
                /\ call'.upload # "none"
                /\ ~(host \in DOMAIN request_counts
                     /\ now - request_counts[host] < ThrottlePer)
                /\ IsVerified(users, email)
                /\ ~(call'.contact_elapsed # NoTime
                     /\ call'.contact_elapsed < CooldownPer)
                /\ DOMAIN last_contact_time'
                       = DOMAIN last_contact_time \cup {email}
                /\ last_contact_time'[email] = now'
                /\ \A other \in DOMAIN last_contact_time \ {email} :
                       last_contact_time'[other] = last_contact_time[other]
       /\ (Called("create_contact") /\ call'.status \in {401, 429}) =>
            UNCHANGED last_contact_time]_vars

\* A call was granted for one identity while another identity has an
\* older contact time.
C12_Witness ==
    /\ call.op = "create_contact"
    /\ call.status = 200
    /\ last_contact_time[call.email] = now
    /\ \E other \in DOMAIN last_contact_time \ {call.email} :
           last_contact_time[other] < now

\* C13: the 429 of the wrapper carries time_to_wait = per - time_elapsed,
\* where time_elapsed is the time since the stored time of the host; it is
\* greater than 0 and at most per; the call leaves request_counts unchanged.
C13_TimeToWait ==
    [][(Called("create_contact") /\ call'.status = 429
        /\ call'.detail = TryAgainIn) =>
         LET host == call'.host IN
         /\ host \in DOMAIN request_counts
         /\ call'.wrapper_elapsed = now - request_counts[host]
         /\ call'.time_to_wait = ThrottlePer - (now - request_counts[host])
         /\ call'.time_to_wait > 0
         /\ call'.time_to_wait <= ThrottlePer
         /\ UNCHANGED request_counts]_vars

\* A call made at the stored time of its host was told to wait a whole per.
C13_Witness ==
    /\ call.op = "create_contact"
    /\ call.detail = TryAgainIn
    /\ call.wrapper_elapsed = 0
    /\ call.time_to_wait = ThrottlePer

\* C14: a register call with a valid email is answered 200 with one
\* background task, which carries the email and the token just stored.  The
\* response is sent before the task runs; whether the task then prints,
\* raises or never runs, the record stays unverified with that token.
C14_Dispatch ==
    [][/\ (Called("register") /\ EmailValid(call'.email)) =>
            /\ call'.status = 200
            /\ Len(call'.background) = 1
            /\ call'.background[1].email = call'.email
            /\ call'.background[1].token
                   = users'[call'.email].verification_token
       /\ (call.op = "register" /\ call.status = 200) =>
            /\ call'.op = "background"
            /\ call'.background = call.background
            /\ UNCHANGED users
       /\ call.op = "background" =>
            /\ call'.op = "dispatched"
            /\ call'.detail \in {"sent", "failed"}
            /\ call'.email = call.background[1].email
            /\ call'.token = call.background[1].token
            /\ UNCHANGED users
       /\ call'.op \in {"background", "dispatched"} =>
            LET task == IF call'.op = "background" THEN call'.background[1]
                        ELSE [email |-> call'.email, token |-> call'.token]
            IN  /\ task.email \in DOMAIN users'
                /\ users'[task.email]
                       = [verified |-> FALSE,
                          verification_token |-> task.token]]_vars

\* The task of a registration raised: the record is unverified and holds
\* the token of the task.
C14_Witness ==
    /\ call.op = "dispatched"
    /\ call.detail = "failed"
    /\ call.email \in DOMAIN users
    /\ users[call.email]
           = [verified |-> FALSE, verification_token |-> call.token]

\* C15, as stated: the wrapper allows Limit calls of one host per
\* ThrottlePer: a create_contact call of a host that passed the wrapper
\* fewer than Limit times in the ThrottlePer before the call passes it.
C15_LimitPerMinute ==
    [][(Called("create_contact")
        /\ Cardinality(passed_at[call'.host]) < Limit) =>
         PassedThrottle(call')]_vars

\* C15, what the wrapper does: it allows one call of a host per ThrottlePer.
\* A call of a host that passed the wrapper once in the ThrottlePer before
\* the call is refused, so a host never passes twice within ThrottlePer.
C15_OnePerMinute ==
    [][/\ (Called("create_contact") /\ passed_at[call'.host] # {}) =>
            /\ call'.status = 429
            /\ call'.detail = TryAgainIn
       /\ \A host \in Hosts :
            /\ Cardinality(passed_at'[host]) <= 1
            /\ passed_at'[host] # {} =>
                   /\ host \in DOMAIN request_counts'
                   /\ passed_at'[host] = {request_counts'[host]}]_vars

\* The second call of a host within ThrottlePer was refused.
C15_Witness ==
    /\ call.op = "create_contact"
    /\ call.detail = TryAgainIn
    /\ Cardinality(passed_at[call.host]) = 1
    /\ Cardinality(passed_at[call.host]) < Limit

\* C16: when the wrapper refuses a host at time t with time_to_wait r, the
\* stored time of the host is t + r - ThrottlePer and the refusal leaves it
\* unchanged; the stored time of a host changes only in a call of that host
\* that passes the wrapper; and a call of the host at a time not less than
\* the stored time plus ThrottlePer, hence at t + r or later, passes.
C16_RetryPasses ==
    [][/\ (Called("create_contact") /\ call'.detail = TryAgainIn) =>
            LET host == call'.host IN
            /\ now + call'.time_to_wait
                   = request_counts[host] + ThrottlePer
            /\ UNCHANGED request_counts
            /\ \A t \in (now + call'.time_to_wait)..(MaxTime + ThrottlePer) :
                   ~ThrottleLimited(request_counts', host, ThrottlePer, t)
       /\ \A host \in Hosts :
            (host \in DOMAIN request_counts
             /\ request_counts'[host] # request_counts[host]) =>
                /\ Called("create_contact")
                /\ call'.host = host
                /\ PassedThrottle(call')
       /\ (/\ Called("create_contact")
           /\ call'.host \in DOMAIN request_counts
           /\ now >= request_counts[call'.host] + ThrottlePer) =>
                PassedThrottle(call')]_vars

\* A host that has a stored time called exactly ThrottlePer after it and
\* passed the wrapper.
C16_Witness ==
    /\ call.op = "create_contact"
    /\ PassedThrottle(call)
    /\ call.wrapper_elapsed = ThrottlePer

\* C17: a register call whose email has no '@' or from which parseaddr
\* extracts no address is answered 400 "Invalid email address"; users is
\* unchanged, no token is drawn and no background task is added.
C17_InvalidEmail ==
    [][(Called("register")
        /\ (~HasAt(call'.email) \/ parseaddr(call'.email) = "")) =>
         /\ call'.status = 400
         /\ call'.detail = InvalidEmail
         /\ call'.background = <<>>
         /\ UNCHANGED <<users, uuid_count>>]_vars

\* A register call with an email that has an '@' but no address was
\* refused while users holds a record.
C17_Witness ==
    /\ call.op = "register"
    /\ call.status = 400
    /\ HasAt(call.email)
    /\ parseaddr(call.email) = ""
    /\ DOMAIN users # {}

\* C18: register leaves the record of its email unverified; after it the
\* flag of an email is true in a state only if it was true before with the
\* same record, or the step is a verify call answered 200 whose token is
\* the stored token of the record.  A token other than the stored one,
\* one stored before the last register included, is answered 400 and leaves
\* users unchanged.
C18_VerifiedOnlyByCurrentToken ==
    [][/\ \A email \in Emails :
            IsVerified(users', email) =>
                \/ /\ IsVerified(users, email)
                   /\ users'[email] = users[email]
                \/ /\ Called("verify")
                   /\ call'.email = email
                   /\ call'.status = 200
                   /\ email \in DOMAIN users
                   /\ call'.token = users[email].verification_token
                   /\ users'[email].verification_token = call'.token
       /\ (Called("register") /\ call'.status = 200) =>
            ~IsVerified(users', call'.email)
       /\ (/\ Called("verify")
           /\ call'.email \in DOMAIN users
           /\ call'.token # users[call'.email].verification_token) =>
                /\ call'.status = 400
                /\ UNCHANGED users]_vars

\* A verify call presented a token that was drawn before and that no record
\* holds any more, for a record that holds a later token: it was refused
\* and the record is unverified.
C18_Witness ==
    /\ call.op = "verify"
    /\ call.status = 400
    /\ call.token \in Issued
    /\ call.email \in DOMAIN users
    /\ call.token < users[call.email].verification_token
    /\ \A other \in DOMAIN users :
           users[other].verification_token # call.token
    /\ ~users[call.email].verified

\* C20: register and verify leave request_counts and last_contact_time
\* unchanged and their response is decided by the email, the token and
\* users alone, never 429; create_contact leaves users unchanged, changes
\* no entry of request_counts but the one of its host and no entry of
\* last_contact_time but the one of its email.
C20_Separation ==
    [][/\ Called("register") =>
            /\ UNCHANGED <<request_counts, last_contact_time, now>>
            /\ call'.status = IF EmailValid(call'.email) THEN 200 ELSE 400
       /\ Called("verify") =>
            /\ UNCHANGED <<request_counts, last_contact_time, now>>
            /\ call'.status
                   = IF VerifyOk(users, call'.email, call'.token)
                     THEN 200 ELSE 400
       /\ Called("create_contact") =>
            /\ UNCHANGED <<users, uuid_count>>
            /\ call'.background = <<>>
            /\ DOMAIN request_counts'
                   \subseteq DOMAIN request_counts \cup {call'.host}
            /\ \A host \in DOMAIN request_counts \ {call'.host} :
                   /\ host \in DOMAIN request_counts'
                   /\ request_counts'[host] = request_counts[host]
            /\ DOMAIN last_contact_time'
                   \subseteq DOMAIN last_contact_time \cup {call'.email}
            /\ \A email \in DOMAIN last_contact_time \ {call'.email} :
                   /\ email \in DOMAIN last_contact_time'
                   /\ last_contact_time'[email] = last_contact_time[email]]_vars

\* A create_contact call was granted while another host and another email
\* have older entries, and they kept them.
C20_Witness ==
    /\ call.op = "create_contact"
    /\ call.status \in {200, 500}
    /\ \E host \in DOMAIN request_counts \ {call.host} :
           request_counts[host] < request_counts[call.host]
    /\ \E email \in DOMAIN last_contact_time \ {call.email} :
           last_contact_time[email] < last_contact_time[call.email]
    /\ \A email \in DOMAIN users : users[email].verified

\* Every email with a contact time has a record in users.
ContactTimesHaveRecords == DOMAIN last_contact_time \subseteq DOMAIN users

\* A step that writes the contact time of an email finds the email verified.
ContactTimeWrittenWhenVerified ==
    \A email \in DOMAIN last_contact_time' :
        (email \notin DOMAIN last_contact_time
         \/ last_contact_time'[email] # last_contact_time[email]) =>
            IsVerified(users, email)

\* No stored time gets smaller and no entry is removed.
TimesNeverDecrease ==
    /\ \A host \in DOMAIN request_counts :
           /\ host \in DOMAIN request_counts'
           /\ request_counts'[host] >= request_counts[host]
    /\ \A email \in DOMAIN last_contact_time :
           /\ email \in DOMAIN last_contact_time'
           /\ last_contact_time'[email] >= last_contact_time[email]

\* C19, as stated: every email with a contact time has a record and was
\* verified when the time was written; every contact time is not later than
\* the stored time of some host; no stored time decreases and no entry is
\* removed.
C19_ContactNotAfterThrottle ==
    [][/\ ContactTimesHaveRecords'
       /\ ContactTimeWrittenWhenVerified
       /\ \A email \in DOMAIN last_contact_time' :
              \E host \in DOMAIN request_counts' :
                  last_contact_time'[email] <= request_counts'[host]
       /\ TimesNeverDecrease]_vars

\* C19, amended: every email with a contact time has a record and was
\* verified when the time was written; the contact time is read from the
\* clock after the time stored for the host of the same call, so that when
\* it is written it is not earlier than that time and it is never later
\* than the clock; no stored time decreases and no entry is removed.
C19_ContactNotBeforeThrottle ==
    [][/\ ContactTimesHaveRecords'
       /\ ContactTimeWrittenWhenVerified
       /\ last_contact_time' # last_contact_time =>
              /\ call'.host \in DOMAIN request_counts'
              /\ request_counts'[call'.host]
                     <= last_contact_time'[call'.email]
       /\ \A email \in DOMAIN last_contact_time' :
              last_contact_time'[email] <= now'
       /\ \A host \in DOMAIN request_counts' :
              request_counts'[host] <= now'
       /\ TimesNeverDecrease]_vars

\* A call was granted and the contact time it wrote is later than the
\* stored time of every host.
C19_Witness ==
    /\ call.op = "create_contact"
    /\ call.status \in {200, 500}
    /\ call.email \in DOMAIN last_contact_time
    /\ IsVerified(users, call.email)
    /\ \A host \in DOMAIN request_counts :
           request_counts[host] < last_contact_time[call.email]

====
